---------------------------- MODULE Spec2Model ----------------------------
(***************************************************************************)
(* Model of src/src/registration.py: the transform algebra                 *)
(* (extract_rigid_transform, extract_from_composite, compose_transforms)   *)
(* and the staged registration orchestrator (main), alone and as two       *)
(* processes that share a file system.                                     *)
(*                                                                         *)
(* Numbers are exact: vectors are integer 3-tuples, rotation matrices are  *)
(* integer 3x3 matrices (axis-aligned rotations), and the scale of a       *)
(* similarity transform is a rational <<numerator, denominator>>.          *)
(***************************************************************************)
EXTENDS Integers, Sequences, FiniteSets, TLC

VARIABLES
    transform_list,   \* compose_transforms: the transforms read from transform_list
    composed,         \* compose_transforms: <<>> or <<the transform written to output_filepath>>
    composeState,     \* "ready" | "returned" | "raised"
    composite,        \* extract_from_composite: the transform read from the composite file
    extracted,        \* extract_from_composite: <<>> or <<the transform written to Rigid.mat>>
    flattenState,     \* "ready" | "returned" | "raised"
    similarity,       \* extract_rigid_transform: the transform read from the similarity file
    fixed_obj,        \* extract_rigid_transform: [shape, zooms] of the target image
    decomposed,       \* extract_rigid_transform: <<>> or <<[invscale, rigid]>> as written
    decomposeState,   \* "ready" | "returned" | "raised"
    args,             \* main: parsed_args (paths or "None", scale_fixed, output_dir)
    fs,               \* main: the file system, path -> <<>> (absent) or <<content>>
    pc,               \* main: the statement the run is at
    error,            \* main: "" or the exception that ended the run
    locals,           \* main: the *_to_use variables, inv_scale and rigid_mat
    log,              \* main: the invocations made so far, in order
    other             \* <<>>, or <<the process state of a second run of main that is
                      \* not the one taking steps now>>

composeVars == <<transform_list, composed, composeState>>

flattenVars == <<composite, extracted, flattenState>>

decomposeVars == <<similarity, fixed_obj, decomposed, decomposeState>>

helperVars == <<composeVars, flattenVars, decomposeVars>>

mainVars == <<args, fs, pc, error, locals, log, other>>

vars == <<composeVars, flattenVars, decomposeVars, mainVars>>

---------------------------------------------------------------------------
(* Linear algebra on exact 3-vectors and 3x3 matrices (numpy in the code). *)

Zero3 == <<0, 0, 0>>

Eye3 == <<<<1, 0, 0>>, <<0, 1, 0>>, <<0, 0, 1>>>>

VecAdd(a, b) == <<a[1] + b[1], a[2] + b[2], a[3] + b[3]>>

VecSub(a, b) == <<a[1] - b[1], a[2] - b[2], a[3] - b[3]>>

Dot3(a, b) == a[1] * b[1] + a[2] * b[2] + a[3] * b[3]

MatVec(m, v) == <<Dot3(m[1], v), Dot3(m[2], v), Dot3(m[3], v)>>

Col(m, j) == <<m[1][j], m[2][j], m[3][j]>>

MatMul(a, b) ==
    [i \in 1..3 |-> [j \in 1..3 |-> Dot3(a[i], Col(b, j))]]

Transpose(m) == <<Col(m, 1), Col(m, 2), Col(m, 3)>>

---------------------------------------------------------------------------
(* Rigid transforms: matrix, translation, center, as ITK's Euler3DTransform *)
(* exposes them (GetMatrix, GetTranslation, GetCenter).                     *)

Rigid(m, t, c) == [matrix |-> m, translation |-> t, center |-> c]

\* The point mapping of a transform: matrix.(x - center) + center + translation.
TransformPoint(T, x) ==
    VecAdd(VecAdd(MatVec(T.matrix, VecSub(x, T.center)), T.center), T.translation)

\* T0(T1(...Tn-1(p)...)): the last element of the list is applied first.
RECURSIVE ApplyChain(_, _)
ApplyChain(list, p) ==
    IF list = <<>> THEN p
    ELSE TransformPoint(Head(list), ApplyChain(Tail(list), p))

\* The inverse mapping of a rigid transform, expressed about center c2.
InverseAbout(T, c2) ==
    LET mi == Transpose(T.matrix)
    IN  Rigid(mi,
              VecSub(VecAdd(MatVec(mi, VecSub(VecSub(c2, T.center), T.translation)),
                            T.center), c2),
              c2)

RotZ90 == <<<<0, -1, 0>>, <<1, 0, 0>>, <<0, 0, 1>>>>

RotX90 == <<<<1, 0, 0>>, <<0, 0, -1>>, <<0, 1, 0>>>>

Rotations == {Eye3, RotZ90, RotX90}

Translations == {Zero3, <<5, 0, 0>>}

Centers == {Zero3, <<1, 2, 3>>, <<-2, 0, 4>>}

RigidTransforms ==
    {Rigid(m, t, c) : m \in Rotations, t \in Translations, c \in Centers}

\* Four affinely independent points: two affine maps that agree on them are equal.
TestPoints == {Zero3, <<1, 0, 0>>, <<0, 1, 0>>, <<0, 0, 1>>}

---------------------------------------------------------------------------
(* compose_transforms (registration.py 86-115).                            *)

\* One pass of the loop body, lines 105-109, with accumulator acc = [mat, c, t].
FoldStepNoCenter(acc, curr_tx) ==
    [mat |-> MatMul(curr_tx.matrix, acc.mat),
     c   |-> acc.c,
     t   |-> VecAdd(MatVec(curr_tx.matrix, acc.t), curr_tx.translation)]

FoldStep(acc, curr_tx) ==
    [mat |-> MatMul(curr_tx.matrix, acc.mat),
     c   |-> acc.c,
     t   |-> VecSub(VecAdd(VecAdd(MatVec(curr_tx.matrix,
                                         VecSub(VecAdd(acc.t, acc.c), curr_tx.center)),
                                  curr_tx.translation),
                           curr_tx.center),
                    acc.c)]

\* for curr_tx in reversed(transforms): the last element is folded in first.
RECURSIVE FoldReversed(_, _)
FoldReversed(acc, transforms) ==
    IF transforms = <<>> THEN acc
    ELSE FoldStep(FoldReversed(acc, Tail(transforms)), Head(transforms))

\* The same fold taken in list order (element 0 folded in first).
RECURSIVE FoldForward(_, _)
FoldForward(acc, transforms) ==
    IF transforms = <<>> THEN acc
    ELSE FoldForward(FoldStep(acc, Head(transforms)), Tail(transforms))

ComposeForward(transforms) ==
    LET acc == FoldForward([mat |-> Eye3, c |-> Zero3, t |-> Zero3], transforms)
    IN  [raised |-> FALSE, written |-> <<Rigid(acc.mat, acc.t, acc.c)>>]

\* The whole function: what it raises and what it writes to output_filepath.
ComposeTransforms(transforms) ==
    LET acc == FoldReversed([mat |-> Eye3, c |-> Zero3, t |-> Zero3], transforms)
    IN  [raised |-> FALSE, written |-> <<Rigid(acc.mat, acc.t, acc.c)>>]

---------------------------------------------------------------------------
(* extract_from_composite (registration.py 64-83).                         *)
(* A transform file holds a tree: a leaf [kind, tfm |-> <<T>>, sub |-> <<>>] *)
(* or a composite [kind |-> "CompositeTransform", tfm |-> <<>>, sub |-> ...]. *)

Leaf(kind, T) == [kind |-> kind, tfm |-> <<T>>, sub |-> <<>>]

Comp(subs) == [kind |-> "CompositeTransform", tfm |-> <<>>, sub |-> subs]

IsComposite(node) == node.kind = "CompositeTransform"

\* comp_tfm.FlattenTransform(): nested composites are replaced by their contents.
RECURSIVE FlattenTransform(_)
FlattenTransform(subs) ==
    IF subs = <<>> THEN <<>>
    ELSE (IF IsComposite(Head(subs)) THEN FlattenTransform(Head(subs).sub)
          ELSE <<Head(subs)>>) \o FlattenTransform(Tail(subs))

\* The whole function: it raises when the file holds no composite (no
\* FlattenTransform attribute) or the flattened composite is empty
\* (GetNthTransform(0)); otherwise it writes sub-transform 0.
ExtractFromComposite(node) ==
    IF ~IsComposite(node) THEN [raised |-> TRUE, written |-> <<>>]
    ELSE LET flat == FlattenTransform(node.sub)
         IN  IF flat = <<>> THEN [raised |-> TRUE, written |-> <<>>]
             ELSE [raised |-> FALSE, written |-> <<flat[1]>>]

---------------------------------------------------------------------------
(* Rationals <<n, d>> with d > 0 in lowest terms, for the scale of a       *)
(* similarity transform and the entries of its matrix.                     *)

RECURSIVE GCD(_, _)
GCD(a, b) == IF b = 0 THEN a ELSE GCD(b, a % b)

Abs(n) == IF n < 0 THEN -n ELSE n

Rat(n, d) ==
    LET g == GCD(Abs(n), Abs(d))
        sgn == IF d < 0 THEN -1 ELSE 1
    IN  <<sgn * (n \div g), sgn * (d \div g)>>

RMul(a, b) == Rat(a[1] * b[1], a[2] * b[2])

RInv(a) == Rat(a[2], a[1])

ROne == <<1, 1>>

RVecScale(s, v) == <<RMul(s, v[1]), RMul(s, v[2]), RMul(s, v[3])>>

RatVec(v) == <<Rat(v[1], 1), Rat(v[2], 1), Rat(v[3], 1)>>

RatMat(m) == <<RatVec(m[1]), RatVec(m[2]), RatVec(m[3])>>

RMatScale(s, m) == <<RVecScale(s, m[1]), RVecScale(s, m[2]), RVecScale(s, m[3])>>

---------------------------------------------------------------------------
(* Similarity3DTransform: rotation (versor), scalar scale, the matrix      *)
(* scale.rotation it keeps, translation and center.                        *)

Similarity(rot, s, t, c) ==
    [rotation |-> rot, scale |-> s, matrix |-> RMatScale(s, RatMat(rot)),
     translation |-> t, center |-> c]

\* tfm.SetScale(s): the scale is stored and the matrix recomputed from the rotation.
SetScale(tfm, s) ==
    [tfm EXCEPT !.scale = s, !.matrix = RMatScale(s, RatMat(tfm.rotation))]

SetCenter(tfm, c) == [tfm EXCEPT !.center = c]

Invertible(tfm) == tfm.scale[1] # 0

\* tfm.GetInverse(): same center, matrix (1/s).R^T, translation -(1/s).R^T.t.
GetInverse(tfm) ==
    LET rt == Transpose(tfm.rotation)
        si == RInv(tfm.scale)
    IN  [rotation |-> rt, scale |-> si, matrix |-> RMatScale(si, RatMat(rt)),
         translation |-> RVecScale(si, RatVec(MatVec(rt, VecSub(Zero3, tfm.translation)))),
         center |-> tfm.center]

\* The center given to the inverse-scale transform, lines 40-46.
InvScaleCenter(fixed) ==
    <<0,
      (fixed.shape[2] - fixed.shape[3]) * fixed.zooms[1],
      (fixed.shape[2] - fixed.shape[3]) * fixed.zooms[1]>>

\* The function with tfm.SetScale(1.0) moved before the inverse scale is read.
ExtractResetFirst(tfm0, fixed) ==
    IF ~Invertible(tfm0) THEN [raised |-> TRUE, written |-> <<>>]
    ELSE LET tfm == SetScale(tfm0, ROne)
             inv_scale_tfm ==
                 SetCenter(SetScale(Similarity(Eye3, ROne, Zero3, Zero3),
                                    GetInverse(tfm).scale),
                           InvScaleCenter(fixed))
         IN  [raised |-> FALSE,
              written |-> <<[invscale |-> inv_scale_tfm,
                             rigid |-> Rigid(tfm.matrix, tfm.translation, tfm.center)]>>]

\* The function without tfm.SetScale(1.0).
ExtractNoReset(tfm0, fixed) ==
    IF ~Invertible(tfm0) THEN [raised |-> TRUE, written |-> <<>>]
    ELSE LET inv_scale_tfm ==
                 SetCenter(SetScale(Similarity(Eye3, ROne, Zero3, Zero3),
                                    GetInverse(tfm0).scale),
                           InvScaleCenter(fixed))
         IN  [raised |-> FALSE,
              written |-> <<[invscale |-> inv_scale_tfm,
                             rigid |-> Rigid(tfm0.matrix, tfm0.translation, tfm0.center)]>>]

\* extract_rigid_transform (registration.py 19-61): it raises when the
\* transform has no inverse; otherwise it writes the inverse-scale transform
\* (built before the reset) and the rigid transform (built after it).
ExtractRigidTransform(tfm0, fixed) ==
    IF ~Invertible(tfm0) THEN [raised |-> TRUE, written |-> <<>>]
    ELSE LET inv_scale_tfm ==
                 SetCenter(SetScale(Similarity(Eye3, ROne, Zero3, Zero3),
                                    GetInverse(tfm0).scale),
                           InvScaleCenter(fixed))
             tfm == SetScale(tfm0, ROne)
         IN  [raised |-> FALSE,
              written |-> <<[invscale |-> inv_scale_tfm,
                             rigid |-> Rigid(tfm.matrix, tfm.translation, tfm.center)]>>]

---------------------------------------------------------------------------
(* The helpers when nothing has called them.                               *)

IdleCompose ==
    /\ transform_list = <<>>
    /\ composed = <<>>
    /\ composeState = "idle"

IdleFlatten ==
    /\ composite = Comp(<<>>)
    /\ extracted = <<>>
    /\ flattenState = "idle"

IdleDecompose ==
    /\ similarity = Similarity(Eye3, ROne, Zero3, Zero3)
    /\ fixed_obj = [shape |-> <<1, 1, 1>>, zooms |-> <<1, 1, 1>>]
    /\ decomposed = <<>>
    /\ decomposeState = "idle"

---------------------------------------------------------------------------
(* main (registration.py 136-512): the registration orchestrator.          *)
(* One action per blocking step: each subprocess.run, each helper call,     *)
(* each rename, and the final rmtree.                                       *)

None == "None"

MovingImage == "in/moving.nii.gz"

FixedImage == "in/fixed.nii.gz"

FixedBrainmask == "in/fixed_brainmask.nii.gz"

FixedRegmask == "in/fixed_regmask.nii.gz"

FixedTransform == "in/fixed_reg.mat"

FixedTarget == "in/fixed_reg.nii.gz"

InputPaths ==
    {MovingImage, FixedImage, FixedBrainmask, FixedRegmask, FixedTransform, FixedTarget}

\* The input files of a second, unrelated request: another directory, with a
\* moving image of the same file name or of another one.
OtherMoving == "in2/moving.nii.gz"

OtherFlair == "in2/flair.nii.gz"

OtherFixed == "in2/fixed.nii.gz"

OtherBrainmask == "in2/fixed_brainmask.nii.gz"

OtherInputPaths == {OtherMoving, OtherFlair, OtherFixed, OtherBrainmask}

MovingImages == {MovingImage, OtherMoving, OtherFlair}

OutputDir == "out"

\* Lines 236-237: Path(...).name.split(".")[0], for the image files above.
Stem(path) ==
    IF path \in {MovingImage, OtherMoving} THEN "moving"
    ELSE IF path = OtherFlair THEN "flair"
    ELSE "fixed"

\* Line 238: "".join(parsed_args.moving_image.suffixes).
Ext(path) == ".nii.gz"

\* Line 239: temp_dir = output_dir / (moving_stem + "__" + fixed_stem).
TempDirOf(a) ==
    a.output_dir \o "/" \o Stem(a.moving_image) \o "__" \o Stem(a.fixed_image)

TempDir == TempDirOf(args)

Tmp(name) == TempDir \o "/" \o name

TempNames ==
    {"moving.nii.gz", "fixed.nii.gz", "ai.mat", "ai_invscale.mat", "ai_rigid.mat",
     "scaled_fixed.nii.gz", "scaled_fixed_brainmask.nii.gz",
     "scaled_fixed_regmask.nii.gz", "outputComposite.h5", "outputRigid.mat",
     "combined.mat", "output.nii.gz"}

TempFilesOf(dir) == {dir \o "/" \o n : n \in TempNames}

TempFiles == TempFilesOf(TempDir)

\* Line 508: output_dir / f"{moving_stem}_reg{ext}".
OutImageOf(a) ==
    a.output_dir \o "/" \o Stem(a.moving_image) \o "_reg" \o Ext(a.moving_image)

\* Line 509: output_dir / f"{moving_stem}_reg{transform_to_use.suffix}".
OutTransformOf(a) == a.output_dir \o "/" \o Stem(a.moving_image) \o "_reg" \o ".mat"

OutImage == OutImageOf(args)

OutTransform == OutTransformOf(args)

\* Every path of the model: the input files, and what a request for any of
\* the moving images writes under the output directory.
Paths ==
    LET requests == {[output_dir |-> OutputDir, moving_image |-> m,
                      fixed_image |-> FixedImage] : m \in MovingImages}
    IN  InputPaths \cup OtherInputPaths \cup {OutputDir}
            \cup UNION {{TempDirOf(a), OutImageOf(a), OutTransformOf(a)}
                            \cup TempFilesOf(TempDirOf(a)) : a \in requests}

Dir == [kind |-> "dir"]

Geom(shape, zooms) == [shape |-> shape, zooms |-> zooms]

\* An image file: the image it was made of, the grid it lies on, the transform
\* file content it was resampled by, whether it has been clipped, and its
\* voxel intensities where this program reads them (<<>> where it does not).
Image(of, onto, geom, by) ==
    [kind |-> "image", of |-> of, onto |-> onto, geom |-> geom, by |-> by,
     clipped |-> FALSE, data |-> <<>>]

WithData(img, data) == [img EXCEPT !.data = data]

InputGeom(path) ==
    IF path \in MovingImages THEN Geom(<<8, 4, 12>>, <<1, 1, 1>>)
    ELSE IF path = FixedTarget THEN Geom(<<4, 4, 4>>, <<1, 1, 1>>)
    ELSE Geom(<<8, 12, 4>>, <<2, 1, 1>>)

Exists(f, path) == f[path] # <<>>

IsDir(f, path) == Exists(f, path) /\ f[path][1].kind = "dir"

ArgNames ==
    <<"moving_image", "fixed_image", "fixed_brainmask", "fixed_regmask",
      "fixed_transform", "fixed_target">>

\* Lines 214-226 without line 229-230: only the existence checks.
ConfigErrorNoPairCheck(a, f) ==
    LET missing == {i \in 1..6 : a[ArgNames[i]] # None /\ ~Exists(f, a[ArgNames[i]])}
    IN  IF missing # {}
        THEN "ValueError: " \o ArgNames[CHOOSE i \in missing : \A j \in missing : i <= j]
                 \o " does not exist."
        ELSE ""

\* Lines 214-230: "" or the ValueError raised before anything is created or run.
ConfigError(a, f) ==
    LET missing == {i \in 1..6 : a[ArgNames[i]] # None /\ ~Exists(f, a[ArgNames[i]])}
    IN  IF missing # {}
        THEN "ValueError: " \o ArgNames[CHOOSE i \in missing : \A j \in missing : i <= j]
                 \o " does not exist."
        ELSE IF (a.fixed_transform = None) # (a.fixed_target = None)
        THEN "ValueError: fixed-transform and fixed-target must both be specified or not at all."
        ELSE ""

NoLocals ==
    [inv_scale |-> "unset", rigid_transform |-> "unset",
     init_transform_to_use |-> "unset", fixed_to_use |-> "unset",
     fixed_brainmask_to_use |-> "unset", fixed_regmask_to_use |-> "unset",
     rigid_mat |-> "unset", transform_to_use |-> "unset", target_to_use |-> "unset"]

\* A log entry: an external command (ext) or a helper of this file, the paths
\* it is given, the files it reads and writes, its exit status, the transform
\* file content it read and the content it wrote to its output.
Cmd(tool, input, reference, output, transform, mask1, mask2) ==
    [tool |-> tool, ext |-> TRUE, input |-> input, reference |-> reference,
     output |-> output, transform |-> transform, mask1 |-> mask1, mask2 |-> mask2,
     reads |-> {input, reference, transform} \ {"-"}, writes |-> {output},
     rc |-> 0, used |-> <<>>, wrote |-> <<>>]

Helper(tool, input, reference, output) ==
    [Cmd(tool, input, reference, output, "-", "-", "-") EXCEPT !.ext = FALSE]

Used(cmd) == IF cmd.transform = "-" THEN <<>> ELSE fs[cmd.transform]

Fail(e) ==
    /\ pc' = "failed"
    /\ error' = e

IsFile(f, path) == Exists(f, path) /\ ~IsDir(f, path)

\* A command can exit 0 only if the files it is to read are there and so is
\* the directory it is to write into.
Runnable(cmd) == IsDir(fs, TempDir) /\ \A p \in cmd.reads : IsFile(fs, p)

\* subprocess.run(cmd, check=False): a non-zero status is ignored.
InvokeUnchecked(cmd, content, nextpc, newLocals) ==
    \E rc \in IF Runnable(cmd) THEN {0, 1} ELSE {1} :
        /\ log' = Append(log, [cmd EXCEPT !.rc = rc, !.used = Used(cmd),
                                          !.wrote = IF rc = 0 THEN <<content>> ELSE <<>>])
        /\ fs' = IF rc = 0 THEN [fs EXCEPT ![cmd.output] = <<content>>] ELSE fs
        /\ pc' = nextpc
        /\ locals' = newLocals
        /\ UNCHANGED error

\* subprocess.run(cmd, check=True, env=ants_env): the tool exits 0 having
\* written its output, or exits non-zero and CalledProcessError ends the run.
Invoke(cmd, content, nextpc, newLocals) ==
    \E rc \in IF Runnable(cmd) THEN {0, 1} ELSE {1} :
        /\ log' = Append(log, [cmd EXCEPT !.rc = rc, !.used = Used(cmd),
                                          !.wrote = IF rc = 0 THEN <<content>> ELSE <<>>])
        /\ IF rc = 0
           THEN /\ fs' = [fs EXCEPT ![cmd.output] = <<content>>]
                /\ pc' = nextpc
                /\ locals' = newLocals
                /\ UNCHANGED error
           ELSE /\ Fail("CalledProcessError")
                /\ UNCHANGED <<fs, locals>>

\* What the external estimators may return.
AiSimilarities ==
    {Similarity(RotZ90, <<2, 1>>, <<5, 0, 0>>, <<1, 2, 3>>),
     Similarity(Eye3, <<1, 2>>, Zero3, Zero3),
     Similarity(Eye3, <<0, 1>>, Zero3, Zero3)}

AiRigids == {Rigid(RotZ90, Zero3, <<1, 2, 3>>), Rigid(Eye3, <<5, 0, 0>>, Zero3)}

RefinedLeaves ==
    {Leaf("Euler3DTransform", T) :
        T \in {Rigid(RotZ90, <<1, 0, 0>>, <<1, 2, 3>>), Rigid(Eye3, <<5, 0, 0>>, Zero3)}}

RegOutputs ==
    {Comp(<<l>>) : l \in RefinedLeaves}
        \cup {Comp(<<>>),
              Comp(<<Leaf("Euler3DTransform", Rigid(RotX90, Zero3, Zero3)),
                     Leaf("Euler3DTransform", Rigid(RotZ90, <<1, 0, 0>>, <<1, 2, 3>>))>>)}

\* Voxel intensities of a moving image, and what the B-spline resampler may
\* make of them: values between, beyond either end of the range (overshoot),
\* and the fill value outside the field of view.
MovingData == {<<1, 3, 2>>, <<2, 2, 5>>}

ResampledData == {<<1, 2, 3>>, <<0, 4, 2>>, <<-1, 6, 1>>}

PriorTransforms == {Rigid(RotX90, <<0, 2, 0>>, <<-2, 0, 4>>), Rigid(Eye3, <<0, 0, 1>>, Zero3)}

\* Lines 255-279: ResampleImageBySpacing 3 <in> <out> 4 4 4 keeps the extent of
\* the image and puts it on a grid of the given spacing, the number of voxels
\* along each axis rounded to the nearest integer.
ResampleImageBySpacing(geom, spacing) ==
    Geom([i \in 1..3 |-> (2 * geom.shape[i] * geom.zooms[i] + spacing) \div (2 * spacing)],
         <<spacing, spacing, spacing>>)

\* Lines 214-240: check the arguments, then create output_dir and temp_dir.
Validate ==
    /\ pc = "start"
    /\ LET e == ConfigError(args, fs)
       IN  IF e # ""
           THEN Fail(e) /\ UNCHANGED fs
           ELSE /\ fs' = [fs EXCEPT ![args.output_dir] = <<Dir>>, ![TempDir] = <<Dir>>]
                /\ pc' = "resample_moving"
                /\ UNCHANGED error
    /\ UNCHANGED <<args, locals, log, helperVars, other>>

\* The first resampling going straight on to the pose estimation.
ResampleMovingOnly ==
    /\ pc = "resample_moving"
    /\ Invoke(Cmd("ResampleImageBySpacing", args.moving_image, "-",
                  Tmp("moving.nii.gz"), "-", "-", "-"),
              Image(args.moving_image, "4x4x4",
                    ResampleImageBySpacing(fs[args.moving_image][1].geom, 4), <<>>),
              IF args.scale_fixed THEN "ai_similarity" ELSE "ai_rigid", locals)
    /\ UNCHANGED <<args, helperVars, other>>

\* Lines 255-266.
ResampleMoving ==
    /\ pc = "resample_moving"
    /\ Invoke(Cmd("ResampleImageBySpacing", args.moving_image, "-",
                  Tmp("moving.nii.gz"), "-", "-", "-"),
              Image(args.moving_image, "4x4x4",
                    ResampleImageBySpacing(fs[args.moving_image][1].geom, 4), <<>>),
              "resample_fixed", locals)
    /\ UNCHANGED <<args, helperVars, other>>

\* Lines 268-281.
ResampleFixed ==
    /\ pc = "resample_fixed"
    /\ Invoke(Cmd("ResampleImageBySpacing", args.fixed_image, "-",
                  Tmp("fixed.nii.gz"), "-", "-", "-"),
              Image(args.fixed_image, "4x4x4",
                    ResampleImageBySpacing(fs[args.fixed_image][1].geom, 4), <<>>),
              IF args.scale_fixed THEN "ai_similarity" ELSE "ai_rigid", locals)
    /\ UNCHANGED <<args, helperVars, other>>

\* Lines 282-304: antsAI with a Similarity transform.
AiSimilarity ==
    /\ pc = "ai_similarity"
    /\ \E sim \in AiSimilarities :
          Invoke(Cmd("antsAI Similarity", Tmp("moving.nii.gz"), Tmp("fixed.nii.gz"),
                     Tmp("ai.mat"), "-", "-", "-"),
                 Leaf("Similarity3DTransform", sim), "decompose", locals)
    /\ UNCHANGED <<args, helperVars, other>>

\* Lines 306-310: extract_rigid_transform(temp_dir / "ai.mat", fixed_image).
Decompose ==
    /\ pc = "decompose"
    /\ LET r == ExtractRigidTransform(fs[Tmp("ai.mat")][1].tfm[1],
                                      fs[args.fixed_image][1].geom)
           entry == [Helper("extract_rigid_transform", Tmp("ai.mat"),
                            args.fixed_image, Tmp("ai_rigid.mat"))
                        EXCEPT !.writes = {Tmp("ai_invscale.mat"), Tmp("ai_rigid.mat")}]
       IN  IF ~Runnable(entry) \/ r.raised
           THEN /\ Fail("RuntimeError")
                /\ log' = Append(log, [entry EXCEPT !.rc = 1])
                /\ UNCHANGED <<fs, locals>>
           ELSE /\ fs' = [fs EXCEPT
                            ![Tmp("ai_invscale.mat")] =
                                <<Leaf("Similarity3DTransform", r.written[1].invscale)>>,
                            ![Tmp("ai_rigid.mat")] =
                                <<Leaf("Euler3DTransform", r.written[1].rigid)>>]
                /\ locals' = [locals EXCEPT !.inv_scale = Tmp("ai_invscale.mat"),
                                            !.rigid_transform = Tmp("ai_rigid.mat")]
                /\ log' = Append(log, [entry EXCEPT
                                          !.wrote = <<Leaf("Euler3DTransform",
                                                           r.written[1].rigid)>>])
                /\ pc' = "scale_image"
                /\ UNCHANGED error
    /\ UNCHANGED <<args, helperVars, other>>

\* The assignments with the original fixed image kept.
ScaledLocalsOriginal(regmask_to_use) ==
    [locals EXCEPT !.fixed_regmask_to_use = regmask_to_use,
                   !.init_transform_to_use = locals.rigid_transform,
                   !.fixed_to_use = args.fixed_image,
                   !.fixed_brainmask_to_use = Tmp("scaled_fixed_brainmask.nii.gz")]

\* Lines 376-378, after the last scaling command.
ScaledLocals(regmask_to_use) ==
    [locals EXCEPT !.fixed_regmask_to_use = regmask_to_use,
                   !.init_transform_to_use = locals.rigid_transform,
                   !.fixed_to_use = Tmp("scaled_fixed.nii.gz"),
                   !.fixed_brainmask_to_use = Tmp("scaled_fixed_brainmask.nii.gz")]

\* Lines 312-329.
ScaleImage ==
    /\ pc = "scale_image"
    /\ Invoke(Cmd("antsApplyTransforms", args.fixed_image, args.fixed_image,
                  Tmp("scaled_fixed.nii.gz"), locals.inv_scale, "-", "-"),
              Image(args.fixed_image, args.fixed_image,
                    fs[args.fixed_image][1].geom, fs[locals.inv_scale]),
              "scale_mask", locals)
    /\ UNCHANGED <<args, helperVars, other>>

\* Lines 331-354 (and 376-378 when no registration mask was given).
ScaleMask ==
    /\ pc = "scale_mask"
    /\ Invoke(Cmd("antsApplyTransforms", args.fixed_brainmask, args.fixed_brainmask,
                  Tmp("scaled_fixed_brainmask.nii.gz"), locals.inv_scale, "-", "-"),
              Image(args.fixed_brainmask, args.fixed_brainmask,
                    fs[args.fixed_brainmask][1].geom, fs[locals.inv_scale]),
              IF args.fixed_regmask # None THEN "scale_regmask" ELSE "register",
              IF args.fixed_regmask # None THEN locals ELSE ScaledLocals(None))
    /\ UNCHANGED <<args, helperVars, other>>

\* Lines 355-378.
ScaleRegmask ==
    /\ pc = "scale_regmask"
    /\ Invoke(Cmd("antsApplyTransforms", args.fixed_regmask, args.fixed_regmask,
                  Tmp("scaled_fixed_regmask.nii.gz"), locals.inv_scale, "-", "-"),
              Image(args.fixed_regmask, args.fixed_regmask,
                    fs[args.fixed_regmask][1].geom, fs[locals.inv_scale]),
              "register", ScaledLocals(Tmp("scaled_fixed_regmask.nii.gz")))
    /\ UNCHANGED <<args, helperVars, other>>

\* Lines 380-407: antsAI with a Rigid transform.
AiRigid ==
    /\ pc = "ai_rigid"
    /\ \E T \in AiRigids :
          Invoke(Cmd("antsAI Rigid", Tmp("moving.nii.gz"), Tmp("fixed.nii.gz"),
                     Tmp("ai_rigid.mat"), "-", "-", "-"),
                 Leaf("Euler3DTransform", T), "register",
                 [locals EXCEPT !.init_transform_to_use = Tmp("ai_rigid.mat"),
                                !.fixed_to_use = args.fixed_image,
                                !.fixed_brainmask_to_use = args.fixed_brainmask,
                                !.fixed_regmask_to_use = args.fixed_regmask])
    /\ UNCHANGED <<args, helperVars, other>>

\* Line 450: "[%s,None]" % "None" if fixed_regmask_to_use is None else fixed_regmask_to_use
Stage1Masks(regmask_to_use) ==
    IF regmask_to_use = None THEN "[" \o "None" \o ",None]" ELSE regmask_to_use

\* Line 462: "[%s,None]" % fixed_brainmask_to_use
Stage2Masks(brainmask_to_use) == "[" \o brainmask_to_use \o ",None]"

\* Lines 421-464: antsRegistration, two rigid stages, writes outputComposite.h5.
Register ==
    /\ pc = "register"
    /\ \E c \in RegOutputs :
          Invoke([Cmd("antsRegistration", args.moving_image, locals.fixed_to_use,
                      Tmp("outputComposite.h5"), locals.init_transform_to_use,
                      Stage1Masks(locals.fixed_regmask_to_use),
                      Stage2Masks(locals.fixed_brainmask_to_use))
                     EXCEPT !.reads = @ \cup ({locals.fixed_regmask_to_use,
                                               locals.fixed_brainmask_to_use} \ {None})],
                 c, "flatten", locals)
    /\ UNCHANGED <<args, helperVars, other>>

\* Lines 468 and 477-479: extract_from_composite(temp_dir / "outputComposite.h5").
Flatten ==
    /\ pc = "flatten"
    /\ LET r == ExtractFromComposite(fs[Tmp("outputComposite.h5")][1])
           entry == Helper("extract_from_composite", Tmp("outputComposite.h5"), "-",
                           Tmp("outputRigid.mat"))
       IN  IF ~Runnable(entry) \/ r.raised
           THEN /\ Fail("RuntimeError")
                /\ log' = Append(log, [entry EXCEPT !.rc = 1])
                /\ UNCHANGED <<fs, locals>>
           ELSE /\ fs' = [fs EXCEPT ![Tmp("outputRigid.mat")] = r.written]
                /\ log' = Append(log, [entry EXCEPT !.wrote = r.written])
                /\ UNCHANGED error
                /\ IF args.fixed_transform # None
                   THEN /\ pc' = "compose"
                        /\ locals' = [locals EXCEPT !.rigid_mat = Tmp("outputRigid.mat")]
                   ELSE /\ pc' = "transform"
                        /\ locals' = [locals EXCEPT
                                         !.rigid_mat = Tmp("outputRigid.mat"),
                                         !.target_to_use = args.fixed_image,
                                         !.transform_to_use = Tmp("outputRigid.mat")]
    /\ UNCHANGED <<args, helperVars, other>>

\* The list with its two elements exchanged.
ComposeListSwapped(rigid_mat, fixed_transform) == <<fixed_transform, rigid_mat>>

\* Line 474: the list handed to compose_transforms.
ComposeList(rigid_mat, fixed_transform) == <<rigid_mat, fixed_transform>>

\* Lines 473-476: compose_transforms([rigid_mat, fixed_transform], combined.mat).
Compose ==
    /\ pc = "compose"
    /\ LET files == ComposeList(locals.rigid_mat, args.fixed_transform)
           nodes == [i \in 1..Len(files) |-> fs[files[i]][1]]
           entry == Helper("compose_transforms", files[1], files[2], Tmp("combined.mat"))
       IN  IF ~Runnable(entry)
           THEN /\ Fail("RuntimeError")
                /\ log' = Append(log, [entry EXCEPT !.rc = 1])
                /\ UNCHANGED <<fs, locals>>
           ELSE IF \E i \in 1..Len(nodes) : IsComposite(nodes[i])
           THEN /\ Fail("AttributeError")
                /\ log' = Append(log, [entry EXCEPT !.rc = 1])
                /\ UNCHANGED <<fs, locals>>
           ELSE LET r == ComposeTransforms([i \in 1..Len(nodes) |-> nodes[i].tfm[1]])
                    out == <<Leaf("Euler3DTransform", r.written[1])>>
                IN  /\ fs' = [fs EXCEPT ![Tmp("combined.mat")] = out]
                    /\ log' = Append(log, [entry EXCEPT !.wrote = out])
                    /\ locals' = [locals EXCEPT !.transform_to_use = Tmp("combined.mat"),
                                                !.target_to_use = args.fixed_target]
                    /\ pc' = "transform"
                    /\ UNCHANGED error
    /\ UNCHANGED <<args, helperVars, other>>

\* Lines 481-502: resample the moving image with the final transform.
Transform ==
    /\ pc = "transform"
    /\ \E data \in ResampledData :
          Invoke(Cmd("antsApplyTransforms", args.moving_image, locals.target_to_use,
                     Tmp("output.nii.gz"), locals.transform_to_use, "-", "-"),
                 WithData(Image(args.moving_image, locals.target_to_use,
                                fs[locals.target_to_use][1].geom,
                                fs[locals.transform_to_use]),
                          data),
                 "clip", locals)
    /\ UNCHANGED <<args, helperVars, other>>

MinOf(data) == CHOOSE x \in {data[i] : i \in DOMAIN data} : \A i \in DOMAIN data : x <= data[i]

MaxOf(data) == CHOOSE x \in {data[i] : i \in DOMAIN data} : \A i \in DOMAIN data : x >= data[i]

\* np.clip(a, lo, hi) is np.minimum(np.maximum(a, lo), hi), voxel by voxel.
NpClip(a, lo, hi) ==
    [i \in DOMAIN a |-> LET raised == IF a[i] < lo THEN lo ELSE a[i]
                        IN  IF raised > hi THEN hi ELSE raised]

\* The image clipped to its own range.
ClipToOwnRange(img_data, input_data) == NpClip(img_data, MinOf(img_data), MaxOf(img_data))

\* Lines 130-132: np.clip(img_data, input_data.min(), input_data.max()).
ClipToInputRange(img_data, input_data) ==
    NpClip(img_data, MinOf(input_data), MaxOf(input_data))

\* The clipped image written over the image the range was taken from.
ClipTargetInput(img_path, input_path) == input_path

\* Line 133: nib.Nifti1Image(img_data, None, img_obj.header).to_filename(img_path).
ClipTarget(img_path, input_path) == img_path

\* Lines 504-505 and 118-133: clip_to_input_range rewrites output.nii.gz in place.
Clip ==
    /\ pc = "clip"
    /\ LET img == fs[Tmp("output.nii.gz")][1]
           out == [img EXCEPT !.clipped = TRUE,
                              !.data = ClipToInputRange(img.data,
                                                        fs[args.moving_image][1].data)]
           entry == Helper("clip_to_input_range", Tmp("output.nii.gz"),
                           args.moving_image, Tmp("output.nii.gz"))
       IN  IF ~Runnable(entry)
           THEN /\ Fail("FileNotFoundError")
                /\ log' = Append(log, [entry EXCEPT !.rc = 1])
                /\ UNCHANGED fs
           ELSE /\ fs' = [fs EXCEPT
                            ![ClipTarget(Tmp("output.nii.gz"), args.moving_image)] = <<out>>]
                /\ log' = Append(log, [entry EXCEPT !.wrote = <<out>>])
                /\ pc' = "publish_image"
                /\ UNCHANGED error
    /\ UNCHANGED <<args, locals, helperVars, other>>

\* Path.rename(src, dst): dst is replaced unless it is a directory.
RenameError(f, src, dst) ==
    IF ~Exists(f, src) THEN "FileNotFoundError"
    ELSE IF IsDir(f, dst) THEN "IsADirectoryError"
    ELSE ""

Rename(f, src, dst) == [f EXCEPT ![dst] = f[src], ![src] = <<>>]

\* Line 508.
PublishImage ==
    /\ pc = "publish_image"
    /\ LET e == RenameError(fs, Tmp("output.nii.gz"), OutImage)
       IN  IF e # ""
           THEN Fail(e) /\ UNCHANGED fs
           ELSE /\ fs' = Rename(fs, Tmp("output.nii.gz"), OutImage)
                /\ pc' = "publish_transform"
                /\ UNCHANGED error
    /\ UNCHANGED <<args, locals, log, helperVars, other>>

\* Line 509.
PublishTransform ==
    /\ pc = "publish_transform"
    /\ LET e == RenameError(fs, locals.transform_to_use, OutTransform)
       IN  IF e # ""
           THEN Fail(e) /\ UNCHANGED fs
           ELSE /\ fs' = Rename(fs, locals.transform_to_use, OutTransform)
                /\ pc' = "cleanup"
                /\ UNCHANGED error
    /\ UNCHANGED <<args, locals, log, helperVars, other>>

\* Lines 511-512: shutil.rmtree(temp_dir).
Cleanup ==
    /\ pc = "cleanup"
    /\ IF ~IsDir(fs, TempDir)
       THEN Fail("FileNotFoundError") /\ UNCHANGED fs
       ELSE /\ fs' = [p \in Paths |-> IF p \in TempFiles \cup {TempDir} THEN <<>> ELSE fs[p]]
            /\ pc' = "done"
            /\ UNCHANGED error
    /\ UNCHANGED <<args, locals, log, helperVars, other>>

IdleMain ==
    /\ args = [moving_image |-> MovingImage, fixed_image |-> FixedImage,
               fixed_brainmask |-> FixedBrainmask, fixed_regmask |-> None,
               fixed_transform |-> None, fixed_target |-> None, scale_fixed |-> FALSE,
               output_dir |-> OutputDir]
    /\ fs = [p \in Paths |-> <<>>]
    /\ pc = "idle"
    /\ error = ""
    /\ locals = NoLocals
    /\ log = <<>>
    /\ other = <<>>

\* The content of an input file that exists.
InputContent(path, prior, data) ==
    IF path = FixedTransform THEN Leaf("Euler3DTransform", prior)
    ELSE IF path \in MovingImages THEN WithData(Image(path, path, InputGeom(path), <<>>), data)
    ELSE Image(path, path, InputGeom(path), <<>>)

\* Every command line argparse accepts, every subset of the named files
\* existing, a moving image with either set of intensities, and an output directory that is absent, empty, or already holds a
\* directory where a result is to go.
MainInit ==
    /\ args \in [moving_image : {MovingImage}, fixed_image : {FixedImage},
                 fixed_brainmask : {FixedBrainmask},
                 fixed_regmask : {None, FixedRegmask},
                 fixed_transform : {None, FixedTransform},
                 fixed_target : {None, FixedTarget},
                 scale_fixed : BOOLEAN, output_dir : {OutputDir}]
    /\ \E present \in SUBSET ({args[ArgNames[i]] : i \in 1..6} \ {None}) :
       \E prior \in PriorTransforms :
       \E data \in MovingData :
       \E taken \in SUBSET {OutImage, OutTransform} :
       \E outdir \in BOOLEAN :
          /\ FixedTransform \notin present => prior = CHOOSE x \in PriorTransforms : TRUE
          /\ MovingImage \notin present => data = CHOOSE x \in MovingData : TRUE
          /\ ~outdir => taken = {}
          /\ fs = [p \in Paths |->
                     IF p \in present THEN <<InputContent(p, prior, data)>>
                     ELSE IF p \in taken \/ (p = OutputDir /\ outdir) THEN <<Dir>>
                     ELSE <<>>]
    /\ pc = "start"
    /\ error = ""
    /\ locals = NoLocals
    /\ log = <<>>
    /\ other = <<>>
    /\ IdleCompose
    /\ IdleFlatten
    /\ IdleDecompose

MainNext ==
    \/ Validate
    \/ ResampleMoving
    \/ ResampleFixed
    \/ AiSimilarity
    \/ Decompose
    \/ ScaleImage
    \/ ScaleMask
    \/ ScaleRegmask
    \/ AiRigid
    \/ Register
    \/ Flatten
    \/ Compose
    \/ Transform
    \/ Clip
    \/ PublishImage
    \/ PublishTransform
    \/ Cleanup

Spec == MainInit /\ [][MainNext]_vars

---------------------------------------------------------------------------
(* compose_transforms called on every list of up to MaxLen transforms.     *)

MaxLen == 3

RECURSIVE ListsUpTo(_, _)
ListsUpTo(S, n) ==
    IF n = 0 THEN {<<>>}
    ELSE LET shorter == ListsUpTo(S, n - 1)
         IN  shorter \cup {<<x>> \o l : x \in S, l \in {s \in shorter : Len(s) = n - 1}}

\* A transform followed or preceded by an inverse of it, about any center.
InversePairs ==
    UNION {{<<T, InverseAbout(T, c2)>>, <<InverseAbout(T, c2), T>>} :
              T \in RigidTransforms, c2 \in Centers}

ComposeInit ==
    /\ transform_list \in ListsUpTo(RigidTransforms, MaxLen) \cup InversePairs
    /\ composed = <<>>
    /\ composeState = "ready"
    /\ IdleFlatten
    /\ IdleDecompose
    /\ IdleMain

CallCompose ==
    /\ composeState = "ready"
    /\ LET r == ComposeTransforms(transform_list)
       IN  /\ composed' = r.written
           /\ composeState' = IF r.raised THEN "raised" ELSE "returned"
    /\ UNCHANGED <<transform_list, flattenVars, decomposeVars, mainVars>>

ComposeNext == CallCompose

SpecCompose == ComposeInit /\ [][ComposeNext]_vars

---------------------------------------------------------------------------
(* extract_from_composite called on transform files of every shape.        *)

MaxSub == 2

RigidLeaves ==
    {Leaf("Euler3DTransform", T) :
        T \in {Rigid(RotZ90, <<5, 0, 0>>, <<1, 2, 3>>), Rigid(Eye3, Zero3, Zero3)}}

Leaves == RigidLeaves \cup {Leaf("AffineTransform", Rigid(RotX90, Zero3, Zero3))}

NestedComposites ==
    {Comp(subs) : subs \in ListsUpTo(Leaves, 1)}
        \cup {Comp(<<a, b>>) : a \in RigidLeaves, b \in RigidLeaves}

TransformFiles ==
    Leaves \cup {Comp(subs) : subs \in ListsUpTo(Leaves \cup NestedComposites, MaxSub)}

FlattenInit ==
    /\ composite \in TransformFiles
    /\ extracted = <<>>
    /\ flattenState = "ready"
    /\ IdleCompose
    /\ IdleDecompose
    /\ IdleMain

CallFlatten ==
    /\ flattenState = "ready"
    /\ LET r == ExtractFromComposite(composite)
       IN  /\ extracted' = r.written
           /\ flattenState' = IF r.raised THEN "raised" ELSE "returned"
    /\ UNCHANGED <<composite, composeVars, decomposeVars, mainVars>>

FlattenNext == CallFlatten

SpecFlatten == FlattenInit /\ [][FlattenNext]_vars

---------------------------------------------------------------------------
(* extract_rigid_transform called on similarity transforms of every scale. *)

Scales == {<<0, 1>>, <<1, 1>>, <<2, 1>>, <<1, 2>>, <<3, 2>>}

Shapes == {<<4, 4, 4>>, <<4, 6, 3>>, <<5, 3, 6>>}

Zooms == {<<1, 1, 1>>, <<2, 1, 1>>}

Similarities ==
    {Similarity(rot, s, t, c) :
        rot \in Rotations, s \in Scales, t \in Translations, c \in {Zero3, <<1, 2, 3>>}}

DecomposeInit ==
    /\ similarity \in Similarities
    /\ fixed_obj \in {[shape |-> sh, zooms |-> z] : sh \in Shapes, z \in Zooms}
    /\ decomposed = <<>>
    /\ decomposeState = "ready"
    /\ IdleCompose
    /\ IdleFlatten
    /\ IdleMain

CallDecompose ==
    /\ decomposeState = "ready"
    /\ LET r == ExtractRigidTransform(similarity, fixed_obj)
       IN  /\ decomposed' = r.written
           /\ decomposeState' = IF r.raised THEN "raised" ELSE "returned"
    /\ UNCHANGED <<similarity, fixed_obj, composeVars, flattenVars, mainVars>>

DecomposeNext == CallDecompose

SpecDecompose == DecomposeInit /\ [][DecomposeNext]_vars

---------------------------------------------------------------------------
(* Claims about compose_transforms, checked under SpecCompose.             *)

IsInversePair(list) ==
    /\ Len(list) = 2
    /\ \A p \in TestPoints : TransformPoint(list[1], TransformPoint(list[2], p)) = p

\* C1: for every non-empty list [T0..Tn-1] compose_transforms writes one rigid
\* transform whose center is the origin and which maps every point p to
\* T0(T1(...Tn-1(p)...)): the last list element is applied first.
C1_ComposeIsChain ==
    (composeState = "returned" /\ transform_list # <<>>) =>
        /\ Len(composed) = 1
        /\ composed[1].center = Zero3
        /\ \A p \in TestPoints :
              TransformPoint(composed[1], p) = ApplyChain(transform_list, p)

\* Three transforms with pairwise distinct centers and non-commuting rotations
\* have been composed.
C1_Witness ==
    /\ composeState = "returned"
    /\ Len(transform_list) = 3
    /\ Cardinality({transform_list[i].center : i \in 1..3}) = 3
    /\ MatMul(transform_list[1].matrix, transform_list[2].matrix)
          # MatMul(transform_list[2].matrix, transform_list[1].matrix)
    /\ transform_list[3].translation # Zero3

\* C2: composing [T, inverse(T)] or [inverse(T), T] yields identity rotation and
\* zero translation, whatever T's rotation, translation and center.
C2_InverseComposesToIdentity ==
    (composeState = "returned" /\ IsInversePair(transform_list)) =>
        /\ Len(composed) = 1
        /\ composed[1].matrix = Eye3
        /\ composed[1].translation = Zero3

\* A rotating, translating transform about a non-zero center has been composed
\* with an inverse of it that is expressed about a different center.
C2_Witness ==
    /\ composeState = "returned"
    /\ IsInversePair(transform_list)
    /\ transform_list[1].matrix # Eye3
    /\ transform_list[1].translation # Zero3
    /\ transform_list[1].center # Zero3
    /\ transform_list[1].center # transform_list[2].center

\* C3: compose_transforms called with an empty list fails (CompositionError) and
\* writes no output transform.
C3_EmptyListRaises ==
    (composeState # "ready" /\ transform_list = <<>>) =>
        (composeState = "raised" /\ composed = <<>>)

---------------------------------------------------------------------------
(* Claims about extract_from_composite, checked under SpecFlatten.         *)

IsRigid(leaf) == leaf.kind = "Euler3DTransform"

\* C4: extract_from_composite returns the wrapped transform unchanged when the
\* flattened composite holds exactly one rigid sub-transform, and otherwise
\* (several sub-transforms, or a non-rigid one) fails and writes nothing.
C4_FlattenContract ==
    (flattenState # "ready" /\ IsComposite(composite)) =>
        LET flat == FlattenTransform(composite.sub)
        IN  IF Len(flat) = 1 /\ IsRigid(flat[1])
            THEN flattenState = "returned" /\ extracted = <<flat[1]>>
            ELSE flattenState = "raised" /\ extracted = <<>>

---------------------------------------------------------------------------
(* Claims about extract_rigid_transform, checked under SpecDecompose.      *)

\* C9: for an invertible scale s the inverse-scale transform has scale 1/s:
\* scaling a point by s and then by the inverse scale recovers the point; it is
\* 1/2 for s = 2 and 1 for s = 1 (the scale is read before the reset to unity).
C9_InverseScaleRoundTrip ==
    (decomposeState # "ready" /\ Invertible(similarity)) =>
        /\ decomposeState = "returned"
        /\ Len(decomposed) = 1
        /\ \A p \in TestPoints \cup Centers :
              RVecScale(decomposed[1].invscale.scale,
                        RVecScale(similarity.scale, RatVec(p))) = RatVec(p)
        /\ similarity.scale = <<2, 1>> => decomposed[1].invscale.scale = <<1, 2>>
        /\ similarity.scale = <<1, 1>> => decomposed[1].invscale.scale = <<1, 1>>

\* A transform of scale 2 has been decomposed.
C9_Witness ==
    /\ decomposeState = "returned"
    /\ similarity.scale = <<2, 1>>
    /\ similarity.rotation # Eye3

\* C10: whatever the scale, the rigid transform has the input's pure rotation
\* matrix (no scale factor), the input's translation and the input's center.
C10_RigidKeepsRotation ==
    (decomposeState = "returned") =>
        /\ Len(decomposed) = 1
        /\ decomposed[1].rigid.matrix = RatMat(similarity.rotation)
        /\ decomposed[1].rigid.translation = similarity.translation
        /\ decomposed[1].rigid.center = similarity.center

\* A rotating, translating transform of non-unit scale about a non-zero center
\* has been decomposed.
C10_Witness ==
    /\ decomposeState = "returned"
    /\ similarity.scale = <<3, 2>>
    /\ similarity.rotation # Eye3
    /\ similarity.translation # Zero3
    /\ similarity.center # Zero3

---------------------------------------------------------------------------
(* Claims about the orchestrator, checked under Spec.                      *)

SuppliedPaths == {args[ArgNames[i]] : i \in 1..6} \ {None}

PairBroken == (args.fixed_transform = None) # (args.fixed_target = None)

BadRequest == PairBroken \/ \E p \in SuppliedPaths : ~Exists(fs, p)

ExternalCalls == {i \in 1..Len(log) : log[i].ext}

ValueErrors ==
    {"ValueError: " \o ArgNames[i] \o " does not exist." : i \in 1..6}
        \cup {"ValueError: fixed-transform and fixed-target must both be specified or not at all."}

\* C5: a request with exactly one of prior transform and prior target, or with a
\* supplied path that does not exist, fails before any external tool is
\* invoked; every run that invokes a tool has the pair both present or both absent.
C5_ConfigFailsFast ==
    /\ ExternalCalls # {} => (~PairBroken /\ ~BadRequest)
    /\ (BadRequest /\ pc # "start") =>
          /\ pc = "failed"
          /\ error \in ValueErrors
          /\ log = <<>>
          /\ ~Exists(fs, TempDir)

\* A request whose files all exist but which names a prior transform without
\* its target has been rejected.
C5_Witness ==
    /\ pc = "failed"
    /\ args.fixed_transform # None
    /\ args.fixed_target = None
    /\ \A p \in SuppliedPaths : Exists(fs, p)

Published(path) == Exists(fs, path) /\ ~IsDir(fs, path)

FailedCalls == {i \in ExternalCalls : log[i].rc # 0}

\* C6: a non-zero status of any external tool ends the run there: it is the last
\* invocation, none is made twice, nothing is published and the temporary
\* directory stays; the directory is removed only by a run that succeeded.
C6_ToolFailureAborts ==
    /\ \A i \in FailedCalls :
          /\ i = Len(log)
          /\ pc = "failed"
          /\ error = "CalledProcessError"
          /\ ~Published(OutImage)
          /\ ~Published(OutTransform)
          /\ Exists(fs, TempDir)
    /\ \A i, j \in ExternalCalls :
          (log[i].tool = log[j].tool /\ log[i].output = log[j].output) => i = j
    /\ (log # <<>> /\ ~Exists(fs, TempDir)) =>
          /\ pc = "done"
          /\ FailedCalls = {}
          /\ Published(OutImage)
          /\ Published(OutTransform)

\* The final resampling, the eighth invocation of a scale-fixed run, has failed.
C6_Witness ==
    /\ pc = "failed"
    /\ FailedCalls # {}
    /\ log[Len(log)].tool = "antsApplyTransforms"
    /\ log[Len(log)].output = Tmp("output.nii.gz")
    /\ args.scale_fixed
    /\ Exists(fs, Tmp("combined.mat"))

\* C7: in every terminal state the output location holds both the final image
\* and the final transform or neither; after success both, and no temp_dir.
C7_PublishAllOrNothing ==
    (pc \in {"done", "failed"}) =>
        /\ Published(OutImage) <=> Published(OutTransform)
        /\ pc = "done" =>
              (Published(OutImage) /\ Published(OutTransform) /\ ~Exists(fs, TempDir))

FinalResample ==
    {i \in ExternalCalls :
        log[i].tool = "antsApplyTransforms" /\ log[i].output = Tmp("output.nii.gz")}

FlattenWrote ==
    log[CHOOSE j \in 1..Len(log) : log[j].tool = "extract_from_composite"].wrote

\* C8: with a prior pair the final resampling uses, and the run publishes,
\* compose([refined, prior]) (prior applied first) on the prior target's grid;
\* without one it uses and publishes the flattened refined transform unchanged
\* on the original fixed image's grid.
C8_FinalTransformAndTarget ==
    \A i \in FinalResample :
        /\ log[i].input = MovingImage
        /\ IF args.fixed_transform # None
           THEN /\ log[i].reference = FixedTarget
                /\ Len(log[i].used) = 1
                /\ log[i].used[1].tfm[1].center = Zero3
                /\ \A p \in TestPoints :
                      TransformPoint(log[i].used[1].tfm[1], p) =
                          TransformPoint(FlattenWrote[1].tfm[1],
                                         TransformPoint(fs[FixedTransform][1].tfm[1], p))
           ELSE /\ log[i].reference = FixedImage
                /\ log[i].used = FlattenWrote
        /\ pc \in {"cleanup", "done"} => fs[OutTransform] = log[i].used

\* A scale-fixed run with a prior pair whose rotation does not commute with the
\* refined rotation has published.
C8_Witness ==
    /\ pc = "done"
    /\ args.scale_fixed
    /\ args.fixed_transform # None
    /\ LET a == FlattenWrote[1].tfm[1].matrix
           b == fs[FixedTransform][1].tfm[1].matrix
       IN  MatMul(a, b) # MatMul(b, a)

---------------------------------------------------------------------------
(* The geometry behind the inverse-scale center.                           *)

Decompositions ==
    {i \in 1..Len(log) : log[i].tool = "extract_rigid_transform" /\ log[i].rc = 0}

\* The log entry of the estimator that wrote the transform a decomposition read.
EstimateOf(i) ==
    log[CHOOSE j \in 1..(i - 1) : log[j].ext /\ log[j].output = log[i].input]

CenterFor(geom) ==
    <<0, (geom.shape[2] - geom.shape[3]) * geom.zooms[1],
         (geom.shape[2] - geom.shape[3]) * geom.zooms[1]>>

\* C12: the inverse-scale transform written by the decomposition has center
\* (0, (dim1 - dim2) * spacing0, (dim1 - dim2) * spacing0), dim and spacing being
\* those of the image the similarity transform was estimated against (the fixed
\* image antsAI was given), which is the geometry main hands to the decomposition.
C12_CenterFromEstimationImage ==
    \A i \in Decompositions :
        /\ log[i].reference = EstimateOf(i).reference
        /\ Exists(fs, Tmp("ai_invscale.mat")) =>
            fs[Tmp("ai_invscale.mat")][1].tfm[1].center =
                CenterFor(fs[EstimateOf(i).reference][1].geom)

---------------------------------------------------------------------------
(* The initial pose estimation and what the refinement is given.           *)

AiCalls == {i \in 1..Len(log) : log[i].tool \in {"antsAI Similarity", "antsAI Rigid"}}

Registrations == {i \in 1..Len(log) : log[i].tool = "antsRegistration"}

\* Applications of the inverse-scale transform to a file, on the file's own
\* grid.
ScalingsOf(path) ==
    {i \in 1..Len(log) :
        /\ log[i].tool = "antsApplyTransforms"
        /\ log[i].input = path
        /\ log[i].reference = path
        /\ log[i].transform = Tmp("ai_invscale.mat")}

Scalings ==
    {i \in 1..Len(log) :
        log[i].tool = "antsApplyTransforms" /\ log[i].output # Tmp("output.nii.gz")}

\* C13: a run makes at most one initial pose estimation, and exactly one
\* before the refinement. With scale-fixed it is the similarity estimator,
\* then the decomposition of its output, then the inverse-scale transform
\* applied to the fixed image, the brain mask and (only if given) the
\* registration mask; the refinement gets the scaled image, the scaled masks
\* and the extracted rigid transform. Without scale-fixed it is the rigid
\* estimator, nothing is decomposed or scaled, and the refinement gets the
\* original fixed image and masks and the estimator's transform.
C13_OneInitialEstimate ==
    /\ Cardinality(AiCalls) <= 1
    /\ \A a \in AiCalls :
          log[a].tool = IF args.scale_fixed THEN "antsAI Similarity" ELSE "antsAI Rigid"
    /\ ~args.scale_fixed => (Decompositions = {} /\ Scalings = {})
    /\ \A i \in Scalings :
          \E d \in Decompositions :
             /\ d < i
             /\ i \in ScalingsOf(args.fixed_image) \cup ScalingsOf(args.fixed_brainmask)
                        \cup ScalingsOf(args.fixed_regmask)
    /\ \A d \in Decompositions :
          \E a \in AiCalls : a < d /\ log[a].rc = 0 /\ log[d].input = log[a].output
    /\ \A r \in Registrations :
          \E a \in AiCalls :
             /\ a < r
             /\ log[a].rc = 0
             /\ IF args.scale_fixed
                THEN \E d \in Decompositions :
                     \E si \in ScalingsOf(args.fixed_image) :
                     \E sb \in ScalingsOf(args.fixed_brainmask) :
                        /\ d < si /\ si < sb /\ sb < r
                        /\ log[si].rc = 0 /\ log[sb].rc = 0
                        /\ log[si].output = log[r].reference
                        /\ locals.fixed_to_use = log[si].output
                        /\ locals.fixed_brainmask_to_use = log[sb].output
                        /\ IF args.fixed_regmask = None
                           THEN locals.fixed_regmask_to_use = None
                           ELSE \E sr \in ScalingsOf(args.fixed_regmask) :
                                   /\ sb < sr /\ sr < r /\ log[sr].rc = 0
                                   /\ locals.fixed_regmask_to_use = log[sr].output
                        /\ Cardinality(Scalings) =
                              IF args.fixed_regmask = None THEN 2 ELSE 3
                        /\ log[r].transform = Tmp("ai_rigid.mat")
                        /\ log[r].used = log[d].wrote
                ELSE /\ log[r].reference = args.fixed_image
                     /\ locals.fixed_to_use = args.fixed_image
                     /\ locals.fixed_brainmask_to_use = args.fixed_brainmask
                     /\ locals.fixed_regmask_to_use = args.fixed_regmask
                     /\ log[r].transform = log[a].output
                     /\ log[r].used = log[a].wrote

\* The refinement of a scale-fixed run with a registration mask has been run.
C13_Witness ==
    /\ Registrations # {}
    /\ args.scale_fixed
    /\ args.fixed_regmask # None
    /\ Cardinality(Scalings) = 3

---------------------------------------------------------------------------
(* The mask arguments of the two refinement stages.                        *)

\* The "[fixed mask,moving mask]" form of a mask argument with no moving mask.
MaskPair(fixed_mask) == "[" \o fixed_mask \o ",None]"

\* C14: the first stage's mask argument names the fixed registration mask in
\* use (the scaled one with scale-fixed) when one was given and no mask when
\* none was given, the second stage's names the fixed brain mask in use, and
\* both are written in the [fixed mask,moving mask] form in either case.
C14_MaskArguments ==
    \A r \in Registrations :
        /\ locals.fixed_regmask_to_use =
              IF args.fixed_regmask = None THEN None
              ELSE IF args.scale_fixed THEN Tmp("scaled_fixed_regmask.nii.gz")
              ELSE args.fixed_regmask
        /\ locals.fixed_brainmask_to_use =
              IF args.scale_fixed THEN Tmp("scaled_fixed_brainmask.nii.gz")
              ELSE args.fixed_brainmask
        /\ log[r].mask1 = MaskPair(locals.fixed_regmask_to_use)
        /\ log[r].mask2 = MaskPair(locals.fixed_brainmask_to_use)

---------------------------------------------------------------------------
(* Clipping the resampled image to the moving image's intensity range.     *)

Clips == {i \in 1..Len(log) : log[i].tool = "clip_to_input_range"}

Lo == MinOf(fs[args.moving_image][1].data)

Hi == MaxOf(fs[args.moving_image][1].data)

Clamped(x) == IF x < Lo THEN Lo ELSE IF x > Hi THEN Hi ELSE x

\* C15: the clipping step comes directly after the successful final
\* resampling and writes, voxel by voxel, the resampled intensity clamped to
\* [lo, hi], the least and greatest intensity of the original moving image
\* (intensities inside the range are kept); the published image is the one
\* the clipping step wrote, so each of its voxels lies in [lo, hi].
C15_ClipToInputRange ==
    /\ Cardinality(Clips) <= 1
    /\ \A c \in Clips :
          /\ c - 1 \in FinalResample
          /\ log[c - 1].rc = 0
          /\ log[c].reference = args.moving_image
          /\ LET resampled == log[c - 1].wrote[1].data
                 out == log[c].wrote[1].data
             IN  /\ DOMAIN out = DOMAIN resampled
                 /\ \A v \in DOMAIN out :
                       /\ out[v] = Clamped(resampled[v])
                       /\ (Lo <= resampled[v] /\ resampled[v] <= Hi) => out[v] = resampled[v]
    /\ \A i \in FinalResample : \A c \in Clips : i < c
    /\ Published(OutImage) =>
          /\ Clips # {}
          /\ \A c \in Clips : fs[OutImage] = log[c].wrote
          /\ \A v \in DOMAIN fs[OutImage][1].data :
                Lo <= fs[OutImage][1].data[v] /\ fs[OutImage][1].data[v] <= Hi

\* A published image whose resampled intensities went below lo and above hi.
C15_Witness ==
    /\ Published(OutImage)
    /\ pc = "done"
    /\ \E i \in FinalResample :
          /\ \E v \in 1..3 : log[i].wrote[1].data[v] < Lo
          /\ \E v \in 1..3 : log[i].wrote[1].data[v] > Hi

---------------------------------------------------------------------------
(* The order of the stages.                                                *)

Step(tool, output) == <<tool, output>>

\* The invocations of a run that goes through, in order.
Plan ==
    <<Step("ResampleImageBySpacing", Tmp("moving.nii.gz")),
      Step("ResampleImageBySpacing", Tmp("fixed.nii.gz"))>>
    \o (IF args.scale_fixed
        THEN <<Step("antsAI Similarity", Tmp("ai.mat")),
               Step("extract_rigid_transform", Tmp("ai_rigid.mat")),
               Step("antsApplyTransforms", Tmp("scaled_fixed.nii.gz")),
               Step("antsApplyTransforms", Tmp("scaled_fixed_brainmask.nii.gz"))>>
             \o (IF args.fixed_regmask # None
                 THEN <<Step("antsApplyTransforms", Tmp("scaled_fixed_regmask.nii.gz"))>>
                 ELSE <<>>)
        ELSE <<Step("antsAI Rigid", Tmp("ai_rigid.mat"))>>)
    \o <<Step("antsRegistration", Tmp("outputComposite.h5")),
         Step("extract_from_composite", Tmp("outputRigid.mat"))>>
    \o (IF args.fixed_transform # None
        THEN <<Step("compose_transforms", Tmp("combined.mat"))>>
        ELSE <<>>)
    \o <<Step("antsApplyTransforms", Tmp("output.nii.gz")),
         Step("clip_to_input_range", Tmp("output.nii.gz"))>>

Publishing == pc \in {"publish_image", "publish_transform", "cleanup", "done"}

\* C16: the invocations of a run are, in this order, the two subsamplings,
\* the pose estimation, (the decomposition and the scalings with
\* scale-fixed), the refinement, the flattening, (the composition with a
\* prior), the final resampling and the clipping, and then the publication:
\* each one is made only after the one before it has returned successfully,
\* one at a time, and every file of the temporary directory that one reads
\* was written by an earlier successful one of the same run.
C16_StageOrder ==
    /\ Len(log) <= Len(Plan)
    /\ \A i \in 1..Len(log) :
          /\ Step(log[i].tool, log[i].output) = Plan[i]
          /\ i < Len(log) => log[i].rc = 0
          /\ \A p \in log[i].reads \cap TempFiles :
                \E j \in 1..(i - 1) : p \in log[j].writes /\ log[j].rc = 0
    /\ log # <<>> => pc # "start"
    /\ (Publishing \/ Published(OutImage) \/ Published(OutTransform)) =>
          /\ Len(log) = Len(Plan)
          /\ log[Len(log)].rc = 0
          /\ locals.transform_to_use \in UNION {log[j].writes : j \in 1..Len(log)}

\* A scale-fixed run with a registration mask and a prior has made all twelve
\* invocations and published.
C16_Witness ==
    /\ pc = "done"
    /\ Len(log) = 12
    /\ Published(OutImage)

---------------------------------------------------------------------------
(* What a run may change in the file system.                               *)

\* The paths a run writes, renames or deletes.
OwnPaths == TempFiles \cup {TempDir, OutputDir, OutImage, OutTransform}

\* C17: no step of a run, successful or failed, changes an input file (moving
\* image, fixed image, the two masks, prior transform, prior target): every
\* write, the clipping step, the two renames and the recursive delete change
\* only files of the temporary directory and the two published files (and
\* create the output and temporary directories).
C17_InputsUntouched ==
    [][/\ \A p \in InputPaths : fs'[p] = fs[p]
       /\ \A p \in Paths : fs'[p] # fs[p] => p \in OwnPaths
       /\ fs'[OutputDir] # fs[OutputDir] => (fs[OutputDir] = <<>> /\ fs'[OutputDir] = <<Dir>>)
       /\ \A i \in 1..Len(log') : log'[i].writes \subseteq TempFiles]_vars

\* A run given all six input files has published and removed its directory.
C17_Witness ==
    /\ pc = "done"
    /\ \A p \in InputPaths : Exists(fs, p)
    /\ \A i \in 1..6 : args[ArgNames[i]] # None
    /\ Clips # {}
    /\ ~Exists(fs, TempDir)

---------------------------------------------------------------------------
(* Two runs of main at once, on unrelated inputs, sharing the file system.  *)

\* How often the processor may change hands between the two runs.
MaxSwitches == 3

\* The process state of the run that is taking steps, with the number of
\* times the processor has changed hands.
Process(n) ==
    [args |-> args, pc |-> pc, error |-> error, locals |-> locals, log |-> log,
     switches |-> n]

\* The operating system lets the other process run; nothing else changes.
Switch ==
    /\ other # <<>>
    /\ other[1].pc \notin {"done", "failed"}
    /\ other[1].switches < MaxSwitches
    /\ other' = <<Process(other[1].switches + 1)>>
    /\ args' = other[1].args
    /\ pc' = other[1].pc
    /\ error' = other[1].error
    /\ locals' = other[1].locals
    /\ log' = other[1].log
    /\ UNCHANGED <<fs, helperVars>>

\* One request with every option, and a second one for files of another
\* directory: a moving image of the same file name or of another file name, a
\* fixed image of the same file name, and the same output directory, which is
\* there already. All input files exist.
TwoRunsInit ==
    /\ args = [moving_image |-> MovingImage, fixed_image |-> FixedImage,
               fixed_brainmask |-> FixedBrainmask, fixed_regmask |-> FixedRegmask,
               fixed_transform |-> FixedTransform, fixed_target |-> FixedTarget,
               scale_fixed |-> TRUE, output_dir |-> OutputDir]
    /\ \E m \in {OtherMoving, OtherFlair} :
          /\ other = <<[args |-> [moving_image |-> m, fixed_image |-> OtherFixed,
                                  fixed_brainmask |-> OtherBrainmask,
                                  fixed_regmask |-> None, fixed_transform |-> None,
                                  fixed_target |-> None, scale_fixed |-> FALSE,
                                  output_dir |-> OutputDir],
                        pc |-> "start", error |-> "", locals |-> NoLocals,
                        log |-> <<>>, switches |-> 0]>>
          /\ fs = [p \in Paths |->
                     IF p \in InputPaths
                     THEN <<InputContent(p, CHOOSE x \in PriorTransforms : TRUE,
                                         <<1, 3, 2>>)>>
                     ELSE IF p \in {m, OtherFixed, OtherBrainmask}
                     THEN <<InputContent(p, CHOOSE x \in PriorTransforms : TRUE,
                                         <<2, 2, 5>>)>>
                     ELSE IF p = OutputDir THEN <<Dir>>
                     ELSE <<>>]
    /\ pc = "start"
    /\ error = ""
    /\ locals = NoLocals
    /\ log = <<>>
    /\ IdleCompose
    /\ IdleFlatten
    /\ IdleDecompose

TwoRunsNext ==
    \/ Validate
    \/ ResampleMoving
    \/ ResampleFixed
    \/ AiSimilarity
    \/ Decompose
    \/ ScaleImage
    \/ ScaleMask
    \/ ScaleRegmask
    \/ AiRigid
    \/ Register
    \/ Flatten
    \/ Compose
    \/ Transform
    \/ Clip
    \/ PublishImage
    \/ PublishTransform
    \/ Cleanup
    \/ Switch

SpecTwoRuns == TwoRunsInit /\ [][TwoRunsNext]_vars

Run(i) == IF i = 1 THEN Process(other[1].switches) ELSE other[1]

\* The paths under the output directory a run has read, written or renamed to.
Touched(r) ==
    UNION {(r.log[i].reads \cup r.log[i].writes) \ (InputPaths \cup OtherInputPaths) :
              i \in 1..Len(r.log)}
        \cup (IF r.pc \in {"publish_transform", "cleanup", "done"}
              THEN {OutImageOf(r.args)} ELSE {})
        \cup (IF r.pc \in {"cleanup", "done"} THEN {OutTransformOf(r.args)} ELSE {})

\* C11: two runs on unrelated inputs, however their steps interleave, have
\* different temporary directories, never read, write or rename to a path
\* the other has read, written or renamed to, and a run that is done still
\* has its own image in the output directory; also with one output directory
\* and input files of equal names in different directories.
C11_RunsIsolated ==
    other # <<>> =>
        /\ (Run(1).pc # "start" /\ Run(2).pc # "start") =>
              /\ TempDirOf(Run(1).args) # TempDirOf(Run(2).args)
              /\ Touched(Run(1)) \cap Touched(Run(2)) = {}
        /\ \A i \in 1..2 :
              Run(i).pc = "done" =>
                  /\ IsFile(fs, OutImageOf(Run(i).args))
                  /\ fs[OutImageOf(Run(i).args)][1].of = Run(i).args.moving_image

=============================================================================
